---------------------------- MODULE Spec2Model ----------------------------
(***************************************************************************)
(* Deduplication core of the job scraper (src/main.py): normalize_text,    *)
(* similarity_ratio, is_duplicate, remove_duplicates, scrape_all_sources   *)
(* and the "Start Deep Scraping" / "Clear All Jobs" handlers.              *)
(*                                                                         *)
(* A text is a sequence of one-character strings.  A similarity ratio is   *)
(* kept as the exact fraction num/den that Python's 2.0*M/T rounds; for    *)
(* the short texts used here comparing the fractions and comparing the     *)
(* rounded doubles agree.  Thresholds are in hundredths (0.85 is 85).      *)
(*                                                                         *)
(* A value that the code computes once and then reads several times is     *)
(* handed on as an operator argument, so that it is written once here too. *)
(***************************************************************************)
EXTENDS Integers, Sequences, FiniteSets, TLC

-----------------------------------------------------------------------------
(* Characters and the str methods used by normalize_text                   *)

UpperChars == <<"A","B","C","D","E","F","G","H","I","J","K","L","M",
                "N","O","P","Q","R","S","T","U","V","W","X","Y","Z">>

LowerChars == <<"a","b","c","d","e","f","g","h","i","j","k","l","m",
                "n","o","p","q","r","s","t","u","v","w","x","y","z">>

Digits == {"0","1","2","3","4","5","6","7","8","9"}

Range(s) == {s[i] : i \in DOMAIN s}

UpperSet == Range(UpperChars)

\* the lower-case letter of each upper-case letter
ToLower == [c \in UpperSet |->
               LowerChars[CHOOSE i \in DOMAIN UpperChars : UpperChars[i] = c]]

\* str.lower() on one character
LowerChar(c) == IF c \in UpperSet THEN ToLower[c] ELSE c

\* str.lower()
Lower(text) == [i \in DOMAIN text |-> LowerChar(text[i])]

\* the regex class \s
SpaceChars == {" ", "\t", "\n", "\r"}

IsSpace(c) == c \in SpaceChars

\* the regex class \w: letters, digits and the underscore
WordChars == UpperSet \cup Range(LowerChars) \cup Digits \cup {"_"}

IsWord(c) == c \in WordChars

\* str.strip(): drop leading and trailing whitespace
Strip(text) ==
    IF \A i \in DOMAIN text : IsSpace(text[i]) THEN <<>>
    ELSE SubSeq(text,
                CHOOSE i \in DOMAIN text :
                    ~IsSpace(text[i]) /\ \A j \in 1 .. (i - 1) : IsSpace(text[j]),
                CHOOSE i \in DOMAIN text :
                    ~IsSpace(text[i]) /\ \A j \in (i + 1) .. Len(text) : IsSpace(text[j]))

\* re.sub(r'[^\w\s]', '', text)
RemoveSpecial(text) == SelectSeq(text, LAMBDA c : IsWord(c) \/ IsSpace(c))

\* re.sub(r'\s+', ' ', text): every maximal run of whitespace becomes one space
RECURSIVE CollapseSpaces(_)
CollapseSpaces(text) ==
    IF text = <<>> THEN <<>>
    ELSE IF ~IsSpace(text[Len(text)])
    THEN Append(CollapseSpaces(SubSeq(text, 1, Len(text) - 1)), text[Len(text)])
    ELSE IF Len(text) > 1 /\ IsSpace(text[Len(text) - 1])
    THEN CollapseSpaces(SubSeq(text, 1, Len(text) - 1))
    ELSE Append(CollapseSpaces(SubSeq(text, 1, Len(text) - 1)), " ")

\* normalize_text(text)
normalize_text(text) ==
    IF text = <<>> THEN <<>>
    ELSE CollapseSpaces(RemoveSpecial(Strip(Lower(text))))

-----------------------------------------------------------------------------
(* difflib.SequenceMatcher(None, a, b).ratio(), no junk (autojunk only     *)
(* acts on sequences of 200 or more elements).  Positions are 1-based,     *)
(* ranges are lo..hi-1 as in the library.                                  *)

\* the largest element of a non-empty set of numbers
Max(S) == CHOOSE s \in S : \A r \in S : r <= s

\* the smallest element of a non-empty set of numbers
Min(S) == CHOOSE s \in S : \A r \in S : s <= r

\* length of the common run of a and b that starts at a[i], b[j]
RECURSIVE CommonRun(_, _, _, _, _, _)
CommonRun(a, b, i, j, ahi, bhi) ==
    IF i < ahi /\ j < bhi /\ a[i] = b[j]
    THEN 1 + CommonRun(a, b, i + 1, j + 1, ahi, bhi)
    ELSE 0

\* the block of size k > 0 that starts earliest in a, given where in a
EarliestInB(a, b, blo, ahi, bhi, k, besti) ==
    [i |-> besti,
     j |-> Min({j \in blo .. (bhi - 1) : CommonRun(a, b, besti, j, ahi, bhi) = k}),
     size |-> k]

\* the block find_longest_match returns, given the size k of the longest
LongestBlock(a, b, alo, ahi, blo, bhi, k) ==
    IF k = 0 THEN [i |-> alo, j |-> blo, size |-> 0]
    ELSE EarliestInB(a, b, blo, ahi, bhi, k,
             Min({i \in alo .. (ahi - 1) :
                     \E j \in blo .. (bhi - 1) : CommonRun(a, b, i, j, ahi, bhi) = k}))

\* find_longest_match(alo, ahi, blo, bhi): the longest matching block; of
\* those the one starting earliest in a, and of those the earliest in b
FindLongestMatch(a, b, alo, ahi, blo, bhi) ==
    LongestBlock(a, b, alo, ahi, blo, bhi,
                 Max({CommonRun(a, b, i, j, ahi, bhi) :
                          i \in alo .. (ahi - 1), j \in blo .. (bhi - 1)} \cup {0}))

RECURSIVE MatchingSize(_, _, _, _, _, _)

\* the block m and the matching blocks of the pieces on either side of it
MatchingSizeAround(a, b, alo, ahi, blo, bhi, m) ==
    IF m.size = 0 THEN 0
    ELSE m.size
         + (IF alo < m.i /\ blo < m.j
            THEN MatchingSize(a, b, alo, m.i, blo, m.j) ELSE 0)
         + (IF m.i + m.size < ahi /\ m.j + m.size < bhi
            THEN MatchingSize(a, b, m.i + m.size, ahi, m.j + m.size, bhi) ELSE 0)

\* sum of the sizes of get_matching_blocks(): the longest match, then the
\* pieces to its left and to its right, recursively
MatchingSize(a, b, alo, ahi, blo, bhi) ==
    MatchingSizeAround(a, b, alo, ahi, blo, bhi,
                       FindLongestMatch(a, b, alo, ahi, blo, bhi))

\* ratio(): 2.0*M/T, and 1.0 when both sequences are empty
SequenceMatcherRatio(a, b) ==
    IF Len(a) + Len(b) = 0 THEN [num |-> 1, den |-> 1]
    ELSE [num |-> 2 * MatchingSize(a, b, 1, Len(a) + 1, 1, Len(b) + 1),
          den |-> Len(a) + Len(b)]

\* similarity_ratio(str1, str2)
similarity_ratio(str1, str2) ==
    SequenceMatcherRatio(normalize_text(str1), normalize_text(str2))

\* ratio >= hundredths/100
RatioAtLeast(ratio, hundredths) == ratio.num * 100 >= hundredths * ratio.den

-----------------------------------------------------------------------------
(* Job records.  A job is a record with a title and a company; the url     *)
(* field may be missing (job.get('url') is then None), empty or a text.    *)

\* the fixed company similarity floor of the fuzzy rule
CompanyFloor == 90

\* the text 'search' looked for in a url
SearchWord == <<"s","e","a","r","c","h">>

\* needle in haystack (Python's substring test)
Contains(haystack, needle) ==
    \E i \in 1 .. (Len(haystack) - Len(needle) + 1) :
        SubSeq(haystack, i, i + Len(needle) - 1) = needle

\* truthiness of job.get('url'): the key is present and the text non-empty
HasUrl(job) == "url" \in DOMAIN job /\ job.url # <<>>

\* the exact-match test of is_duplicate
ExactMatch(job1, job2) ==
    /\ normalize_text(job1.title) = normalize_text(job2.title)
    /\ normalize_text(job1.company) = normalize_text(job2.company)

\* FuzzyMatch with the title comparison turned round: similarity <= threshold
FuzzyMatch_TitleAtMost(job1, job2, threshold) ==
    /\ ~RatioAtLeast(similarity_ratio(job1.title, job2.title), threshold + 1)
    /\ RatioAtLeast(similarity_ratio(job1.company, job2.company), CompanyFloor)

\* FuzzyMatch without the company comparison
FuzzyMatch_TitleOnly(job1, job2, threshold) ==
    RatioAtLeast(similarity_ratio(job1.title, job2.title), threshold)

\* the similarity test of is_duplicate
FuzzyMatch(job1, job2, threshold) ==
    /\ RatioAtLeast(similarity_ratio(job1.title, job2.title), threshold)
    /\ RatioAtLeast(similarity_ratio(job1.company, job2.company), CompanyFloor)

\* SameUrl without the test for a generic url
SameUrl_AnyUrl(job1, job2) ==
    /\ HasUrl(job1)
    /\ HasUrl(job2)
    /\ job1.url = job2.url

\* the url test of is_duplicate: only job1's url is searched for 'search'
SameUrl(job1, job2) ==
    /\ HasUrl(job1)
    /\ HasUrl(job2)
    /\ job1.url = job2.url
    /\ ~Contains(Lower(job1.url), SearchWord)

\* is_duplicate(job1, job2, threshold)
is_duplicate(job1, job2, threshold) ==
    IF ExactMatch(job1, job2) THEN TRUE
    ELSE IF FuzzyMatch(job1, job2, threshold) THEN TRUE
    ELSE IF SameUrl(job1, job2) THEN TRUE
    ELSE FALSE

-----------------------------------------------------------------------------
(* Inputs.  The texts are chosen so that every rule of is_duplicate fires  *)
(* on its own, at some thresholds only, and in one argument order only:    *)
(*   ratio('aaba', 'baaa') = 0.75     ratio('baaa', 'aaba')  = 0.5         *)
(*   ratio('aabac', 'aaba') = 0.889   ratio('aabac', 'baaa') = 0.667       *)
(*   ratio('xyz', 'xy') = 0.8                                              *)

\* the "Similarity Threshold" slider: 0.7 to 1.0 in steps of 0.05, at 0.85
\* when untouched
SliderMin == 70
SliderMax == 100
SliderStep == 5
SliderDefault == 85

\* every position of the slider
Thresholds == {t \in SliderMin .. SliderMax : (t - SliderMin) % SliderStep = 0}

\* the positions the slider is at when the button is pressed
HandlerThresholds == {SliderMin, SliderDefault, SliderMax}

Title_baaa == <<"b","a","a","a">>
Title_aaba == <<"a","a","b","a">>
Title_aabac == <<"a","a","b","a","c">>
Title_zz == <<"z","z">>
\* ' B-aaa!' normalizes to 'baaa'
Title_Baaa == <<" ","B","-","a","a","a","!">>

Company_xy == <<"x","y">>
Company_xyz == <<"x","y","z">>
Company_q == <<"q">>
\* 'X.Y ' normalizes to 'xy'
Company_XY == <<"X",".","Y"," ">>

Url_job == <<"/","j","1">>
Url_search == <<"/","S","e","a","r","c","h","?">>

Job(title, company, url) == [title |-> title, company |-> company, url |-> url]

\* a job whose dict has no 'url' key
JobNoUrl(title, company) == [title |-> title, company |-> company]

\* the records handed to is_duplicate
ClassifierTitles == {Title_baaa, Title_aaba, Title_Baaa, <<>>}

ClassifierCompanies == {Company_xy, Company_xyz, Company_XY, <<>>}

ClassifierUrls == {<<>>, Url_job, Url_search}

ClassifierJobs ==
    {Job(t, c, u) : t \in ClassifierTitles, c \in ClassifierCompanies, u \in ClassifierUrls}
    \cup {JobNoUrl(t, c) : t \in ClassifierTitles, c \in ClassifierCompanies}

\* sequences over S of length at most n
SeqsUpTo(S, n) == UNION {[1 .. k -> S] : k \in 0 .. n}

\* the records handed to remove_duplicates
JobA == Job(Title_baaa, Company_xy, <<>>)
JobB == Job(Title_aaba, Company_xy, Url_job)
JobC == Job(Title_zz, Company_q, Url_job)
JobD == Job(Title_aabac, Company_xy, <<>>)
JobE == JobNoUrl(Title_Baaa, Company_XY)

\* the two records of the scenario "Acme Corp" / "Acme Corporation"
Title_ITSupportEngineer ==
    <<"I", "T", " ", "S", "u", "p", "p", "o", "r", "t", " ", "E", "n", "g", "i", "n", "e", "e", "r">>
Company_AcmeCorp == <<"A", "c", "m", "e", " ", "C", "o", "r", "p">>
Company_AcmeCorporation ==
    <<"A", "c", "m", "e", " ", "C", "o", "r", "p", "o", "r", "a", "t", "i", "o", "n">>

Scenario2First == JobNoUrl(Title_ITSupportEngineer, Company_AcmeCorp)
Scenario2Second == JobNoUrl(Title_ITSupportEngineer, Company_AcmeCorporation)
Scenario2 == <<Scenario2First, Scenario2Second>>

DedupJobs == {JobA, JobB, JobC, JobD, JobE}

\* longest jobs_list handed to remove_duplicates
MaxLen == 4

\* the records the scrapers return
ScrapedJobs == {JobA, JobB, JobC}

\* the three entries of the sources list of scrape_all_sources
NumSources == 3

\* most records the scrapers return in one run, over all sources
MaxScraped == 2

\* cap on st.session_state.removed_duplicates
MaxRemoved == 2

\* what one scraper call does: raise, or return a list of jobs
SourceOutcomes ==
    {[raised |-> TRUE, jobs |-> <<>>]}
    \cup {[raised |-> FALSE, jobs |-> l] : l \in SeqsUpTo(ScrapedJobs, MaxScraped)}

RECURSIVE SumLen(_, _)
SumLen(batches, n) ==
    IF n = 0 THEN 0 ELSE SumLen(batches, n - 1) + Len(batches[n].jobs)

\* what the scrapers do in one run, in the order of the sources list
Batches ==
    {b \in [1 .. NumSources -> SourceOutcomes] : SumLen(b, NumSources) <= MaxScraped}

-----------------------------------------------------------------------------
(* remove_duplicates.  The accumulator carries the two locals of the loop  *)
(* and, as history, the positions in jobs_list of the retained objects.    *)

\* the records remove_duplicates is given
TableJobs == DedupJobs \cup ScrapedJobs \cup {Scenario2First, Scenario2Second}

\* is_duplicate on the records of the inputs, evaluated once per triple
is_duplicate_table ==
    [job1 \in TableJobs, job2 \in TableJobs,
     threshold \in Thresholds |-> is_duplicate(job1, job2, threshold)]

\* the call is_duplicate(job1, job2, threshold) made by remove_duplicates
IsDuplicate(job1, job2, threshold) == is_duplicate_table[job1, job2, threshold]

\* RemoveDuplicatesStep with the append outside the "if not is_dup"
RemoveDuplicatesStep_AlwaysAppends(acc, job, idx, similarity_threshold) ==
    IF \E k \in DOMAIN acc.unique_jobs :
           IsDuplicate(job, acc.unique_jobs[k], similarity_threshold)
    THEN [acc EXCEPT !.duplicates_removed = @ + 1,
                     !.unique_jobs = Append(@, job),
                     !.kept = Append(@, idx)]
    ELSE [acc EXCEPT !.unique_jobs = Append(@, job),
                     !.kept = Append(@, idx)]

\* RemoveDuplicatesStep with insert(0, job) for append(job)
RemoveDuplicatesStep_Prepends(acc, job, idx, similarity_threshold) ==
    IF \E k \in DOMAIN acc.unique_jobs :
           IsDuplicate(job, acc.unique_jobs[k], similarity_threshold)
    THEN [acc EXCEPT !.duplicates_removed = @ + 1]
    ELSE [acc EXCEPT !.unique_jobs = <<job>> \o @,
                     !.kept = <<idx>> \o @]

\* RemoveDuplicatesStep comparing the job with the last retained job only
RemoveDuplicatesStep_LastOnly(acc, job, idx, similarity_threshold) ==
    IF /\ acc.unique_jobs # <<>>
       /\ IsDuplicate(job, acc.unique_jobs[Len(acc.unique_jobs)], similarity_threshold)
    THEN [acc EXCEPT !.duplicates_removed = @ + 1]
    ELSE [acc EXCEPT !.unique_jobs = Append(@, job),
                     !.kept = Append(@, idx)]

\* RemoveDuplicatesStep calling is_duplicate(unique_job, job, ...)
RemoveDuplicatesStep_SwappedArguments(acc, job, idx, similarity_threshold) ==
    IF \E k \in DOMAIN acc.unique_jobs :
           IsDuplicate(acc.unique_jobs[k], job, similarity_threshold)
    THEN [acc EXCEPT !.duplicates_removed = @ + 1]
    ELSE [acc EXCEPT !.unique_jobs = Append(@, job),
                     !.kept = Append(@, idx)]

\* RemoveDuplicatesStep without the break: every match is counted
RemoveDuplicatesStep_CountsEveryMatch(acc, job, idx, similarity_threshold) ==
    IF \E k \in DOMAIN acc.unique_jobs :
           IsDuplicate(job, acc.unique_jobs[k], similarity_threshold)
    THEN [acc EXCEPT !.duplicates_removed =
              @ + Cardinality({k \in DOMAIN acc.unique_jobs :
                                  IsDuplicate(job, acc.unique_jobs[k],
                                              similarity_threshold)})]
    ELSE [acc EXCEPT !.unique_jobs = Append(@, job),
                     !.kept = Append(@, idx)]

\* one pass of the outer loop: the inner scan of unique_jobs for the job at
\* position idx, then the append when no match was found
RemoveDuplicatesStep(acc, job, idx, similarity_threshold) ==
    IF \E k \in DOMAIN acc.unique_jobs :
           IsDuplicate(job, acc.unique_jobs[k], similarity_threshold)
    THEN [acc EXCEPT !.duplicates_removed = @ + 1]
    ELSE [acc EXCEPT !.unique_jobs = Append(@, job),
                     !.kept = Append(@, idx)]

\* the state of the loop after the first n jobs
RECURSIVE RemoveDuplicatesLoop(_, _, _)
RemoveDuplicatesLoop(jobs_list, similarity_threshold, n) ==
    IF n = 0
    THEN [unique_jobs |-> <<>>, duplicates_removed |-> 0, kept |-> <<>>]
    ELSE RemoveDuplicatesStep(
             RemoveDuplicatesLoop(jobs_list, similarity_threshold, n - 1),
             jobs_list[n], n, similarity_threshold)

\* remove_duplicates(jobs_list, similarity_threshold)
remove_duplicates(jobs_list, similarity_threshold) ==
    IF jobs_list = <<>>
    THEN [unique_jobs |-> <<>>, duplicates_removed |-> 0, kept |-> <<>>]
    ELSE RemoveDuplicatesLoop(jobs_list, similarity_threshold, Len(jobs_list))

-----------------------------------------------------------------------------
(* scrape_all_sources and the locals of the "Start Deep Scraping" handler  *)

\* ScrapeSource with "all_jobs = unique_jobs" for "all_jobs.extend(unique_jobs)"
ScrapeSource_Overwrites(before, raised, jobs, deduped) ==
    IF raised
    THEN [before EXCEPT !.source_dups = Append(@, 0)]
    ELSE IF Len(jobs) > 0
    THEN [all_jobs |-> deduped.unique_jobs,
          source_dups |-> Append(before.source_dups, deduped.duplicates_removed)]
    ELSE [before EXCEPT !.source_dups = Append(@, 0)]

\* ScrapeSource with the try around the whole loop: a raise drops what the
\* earlier sources returned
ScrapeSource_RaiseDropsAll(before, raised, jobs, deduped) ==
    IF raised
    THEN [all_jobs |-> <<>>, source_dups |-> Append(before.source_dups, 0)]
    ELSE IF Len(jobs) > 0
    THEN [all_jobs |-> before.all_jobs \o deduped.unique_jobs,
          source_dups |-> Append(before.source_dups, deduped.duplicates_removed)]
    ELSE [before EXCEPT !.source_dups = Append(@, 0)]

\* one pass of the for loop of scrape_all_sources: the scraper raised, or
\* returned jobs, of which deduped is what remove_duplicates makes.  Kept as
\* history: the source_dups of each source (0 where none was computed)
ScrapeSource(before, raised, jobs, deduped) ==
    IF raised
    THEN [before EXCEPT !.source_dups = Append(@, 0)]
    ELSE IF Len(jobs) > 0
    THEN [all_jobs |-> before.all_jobs \o deduped.unique_jobs,
          source_dups |-> Append(before.source_dups, deduped.duplicates_removed)]
    ELSE [before EXCEPT !.source_dups = Append(@, 0)]

\* the for loop of scrape_all_sources after the first n sources
RECURSIVE ScrapeLoop(_, _, _)
ScrapeLoop(batches, dedup_threshold, n) ==
    IF n = 0 THEN [all_jobs |-> <<>>, source_dups |-> <<>>]
    ELSE ScrapeSource(ScrapeLoop(batches, dedup_threshold, n - 1),
                      batches[n].raised, batches[n].jobs,
                      remove_duplicates(batches[n].jobs, dedup_threshold))

\* the end of scrape_all_sources, "Final deduplication across all sources",
\* deduped being what remove_duplicates makes of all_jobs
CrossSource(scraped, deduped) ==
    IF scraped.all_jobs # <<>>
    THEN [final_jobs |-> deduped.unique_jobs,
          cross_source_dups |-> deduped.duplicates_removed,
          source_dups |-> scraped.source_dups]
    ELSE [final_jobs |-> scraped.all_jobs,
          cross_source_dups |-> 0,
          source_dups |-> scraped.source_dups]

\* all_jobs after the loop, then its deduplication
ScrapedThenCrossSource(scraped, dedup_threshold) ==
    CrossSource(scraped, remove_duplicates(scraped.all_jobs, dedup_threshold))

\* scrape_all_sources(location, work_modes, dedup_threshold), given what the
\* scrapers do
scrape_all_sources(batches, dedup_threshold) ==
    ScrapedThenCrossSource(ScrapeLoop(batches, dedup_threshold, NumSources),
                           dedup_threshold)

\* truly_new measured against new_jobs' length instead of all_jobs' length
TrulyNew_AgainstFinalOnly(final_unique_jobs, old_jobs) == Len(final_unique_jobs)

\* truly_new
TrulyNew(final_unique_jobs, old_jobs) == Len(final_unique_jobs) - Len(old_jobs)

\* total_dups_removed
TotalDupsRemoved(new_jobs, truly_new, cross_dups, final_dups) ==
    Len(new_jobs) - truly_new + cross_dups + final_dups

\* the locals of the handler once final is what remove_duplicates makes of
\* combined_jobs; kept as history: what the scrapers did, the source_dups,
\* all_jobs as it was and the threshold of the merge that produced it
HandlerLocals(old_jobs, old_threshold, dedup_threshold, batches, scraped, final) ==
    [dedup_threshold |-> dedup_threshold,
     batches |-> batches,
     source_dups |-> scraped.source_dups,
     new_jobs |-> scraped.final_jobs,
     cross_dups |-> scraped.cross_source_dups,
     final_unique_jobs |-> final.unique_jobs,
     final_dups |-> final.duplicates_removed,
     truly_new |-> TrulyNew(final.unique_jobs, old_jobs),
     total_dups_removed |->
         TotalDupsRemoved(scraped.final_jobs,
                          TrulyNew(final.unique_jobs, old_jobs),
                          scraped.cross_source_dups,
                          final.duplicates_removed),
     old_jobs |-> old_jobs,
     old_threshold |-> old_threshold]

\* FinalMerge with combined_jobs = new_jobs, st.session_state.all_jobs left out
FinalMerge_NewJobsOnly(old_jobs, old_threshold, dedup_threshold, batches, scraped) ==
    HandlerLocals(old_jobs, old_threshold, dedup_threshold, batches, scraped,
                  remove_duplicates(scraped.final_jobs, dedup_threshold))

\* combined_jobs and its deduplication, "Remove duplicates against existing jobs"
FinalMerge(old_jobs, old_threshold, dedup_threshold, batches, scraped) ==
    HandlerLocals(old_jobs, old_threshold, dedup_threshold, batches, scraped,
                  remove_duplicates(old_jobs \o scraped.final_jobs, dedup_threshold))

-----------------------------------------------------------------------------
(* State                                                                   *)

VARIABLES
    all_jobs,            \* st.session_state.all_jobs
    removed_duplicates,  \* st.session_state.removed_duplicates
    last_update,         \* st.session_state.last_update is set
    phase,               \* "idle": between script runs; "merged": the handler has run
    run,                 \* the locals of the "Start Deep Scraping" handler's last run
    last_threshold,      \* history: the threshold of the merge that produced all_jobs (0: none)
    rd,                  \* one call of remove_duplicates and its follow-up calls
    cls,                 \* one call of is_duplicate and the call with the arguments swapped
    txt,                 \* one call of normalize_text or of similarity_ratio
    scan                 \* one call of remove_duplicates, a record of jobs_list at a time

vars == <<all_jobs, removed_duplicates, last_update, phase, run, last_threshold,
          rd, cls, txt, scan>>

appVars == <<all_jobs, removed_duplicates, last_update, phase, run, last_threshold>>

NoResult == [unique_jobs |-> <<>>, duplicates_removed |-> 0, kept |-> <<>>]

NoRun == [dedup_threshold |-> 0, batches |-> <<>>, source_dups |-> <<>>,
          new_jobs |-> <<>>, cross_dups |-> 0,
          final_unique_jobs |-> <<>>, final_dups |-> 0,
          truly_new |-> 0, total_dups_removed |-> 0,
          old_jobs |-> <<>>, old_threshold |-> 0]

\* session state after the "Initialize session state" block
AppInit ==
    /\ all_jobs = <<>>
    /\ removed_duplicates = 0
    /\ last_update = FALSE
    /\ phase = "idle"
    /\ run = NoRun
    /\ last_threshold = 0

RdIdle == [pc |-> "idle", jobs_list |-> <<>>, similarity_threshold |-> 0,
           result |-> NoResult, again |-> NoResult,
           higher_threshold |-> 0, higher |-> NoResult]

ClsIdle == [pc |-> "idle", job1 |-> JobNoUrl(<<>>, <<>>), job2 |-> JobNoUrl(<<>>, <<>>),
            threshold |-> 0, result |-> FALSE, swapped |-> FALSE]

NoRatio == [num |-> 0, den |-> 1]

TxtIdle == [pc |-> "idle", str1 |-> <<>>, str2 |-> <<>>, normalized |-> <<>>,
            ratio |-> NoRatio, swapped |-> NoRatio]

ScanIdle == [pc |-> "idle", jobs_list |-> <<>>, similarity_threshold |-> 0,
             n |-> 0, acc |-> NoResult]

-----------------------------------------------------------------------------
(* is_duplicate on a pair of records: SpecClassifier                       *)

InitClassifier ==
    /\ AppInit
    /\ rd = RdIdle
    /\ txt = TxtIdle
    /\ scan = ScanIdle
    /\ \E j1 \in ClassifierJobs, j2 \in ClassifierJobs, t \in Thresholds :
           cls = [pc |-> "call", job1 |-> j1, job2 |-> j2, threshold |-> t,
                  result |-> FALSE, swapped |-> FALSE]

\* is_duplicate(job1, job2, threshold), and is_duplicate(job2, job1, threshold)
IsDuplicateCall ==
    /\ cls.pc = "call"
    /\ cls' = [cls EXCEPT !.pc = "done",
                          !.result = is_duplicate(cls.job1, cls.job2, cls.threshold),
                          !.swapped = is_duplicate(cls.job2, cls.job1, cls.threshold)]
    /\ UNCHANGED <<appVars, rd, txt, scan>>

NextClassifier == IsDuplicateCall

SpecClassifier == InitClassifier /\ [][NextClassifier]_vars

-----------------------------------------------------------------------------
(* remove_duplicates on a list: SpecDedup                                  *)

InitDedup ==
    /\ AppInit
    /\ cls = ClsIdle
    /\ txt = TxtIdle
    /\ scan = ScanIdle
    /\ \E l \in SeqsUpTo(DedupJobs, MaxLen) \cup {Scenario2}, t \in Thresholds :
           rd = [RdIdle EXCEPT !.pc = "call", !.jobs_list = l,
                               !.similarity_threshold = t]

\* remove_duplicates(jobs_list, similarity_threshold)
RemoveDuplicatesCall ==
    /\ rd.pc = "call"
    /\ rd' = [rd EXCEPT !.pc = "returned",
                        !.result = remove_duplicates(rd.jobs_list, rd.similarity_threshold)]
    /\ UNCHANGED <<appVars, cls, txt, scan>>

\* remove_duplicates on the list just returned, with the same threshold
RemoveDuplicatesAgain ==
    /\ rd.pc = "returned"
    /\ rd' = [rd EXCEPT !.pc = "again",
                        !.again = remove_duplicates(rd.result.unique_jobs,
                                                    rd.similarity_threshold)]
    /\ UNCHANGED <<appVars, cls, txt, scan>>

\* remove_duplicates on the same list with a higher threshold
RemoveDuplicatesHigher(t2) ==
    /\ rd.pc = "returned"
    /\ t2 > rd.similarity_threshold
    /\ rd' = [rd EXCEPT !.pc = "higher",
                        !.higher_threshold = t2,
                        !.higher = remove_duplicates(rd.jobs_list, t2)]
    /\ UNCHANGED <<appVars, cls, txt, scan>>

NextDedup ==
    \/ RemoveDuplicatesCall
    \/ RemoveDuplicatesAgain
    \/ \E t2 \in Thresholds : RemoveDuplicatesHigher(t2)

SpecDedup == InitDedup /\ [][NextDedup]_vars

-----------------------------------------------------------------------------
(* The application: Spec                                                   *)

\* the "Start Deep Scraping" button, with the slider at dedup_threshold and
\* the scrapers doing what batches says
StartDeepScraping(dedup_threshold, batches) ==
    /\ phase = "idle"
    /\ run' = FinalMerge(all_jobs, last_threshold, dedup_threshold, batches,
                         scrape_all_sources(batches, dedup_threshold))
    /\ removed_duplicates + run'.total_dups_removed <= MaxRemoved
    /\ all_jobs' = run'.final_unique_jobs
    /\ removed_duplicates' = removed_duplicates + run'.total_dups_removed
    /\ last_update' = TRUE
    /\ phase' = "merged"
    /\ last_threshold' = dedup_threshold
    /\ UNCHANGED <<rd, cls, txt, scan>>

\* the script run ends: the handler's locals are gone, the session state stays
ScriptRunEnds ==
    /\ phase = "merged"
    /\ phase' = "idle"
    /\ run' = NoRun
    /\ UNCHANGED <<all_jobs, removed_duplicates, last_update, last_threshold,
                   rd, cls, txt, scan>>

\* the "Clear All Jobs" button
ClearAllJobs ==
    /\ phase = "idle"
    /\ all_jobs' = <<>>
    /\ last_update' = FALSE
    /\ removed_duplicates' = 0
    /\ last_threshold' = 0
    /\ UNCHANGED <<phase, run, rd, cls, txt, scan>>

Init ==
    /\ AppInit
    /\ rd = RdIdle
    /\ cls = ClsIdle
    /\ txt = TxtIdle
    /\ scan = ScanIdle

Next ==
    \/ \E t \in HandlerThresholds, b \in Batches : StartDeepScraping(t, b)
    \/ ScriptRunEnds
    \/ ClearAllJobs

Spec == Init /\ [][Next]_vars


-----------------------------------------------------------------------------
(* normalize_text on a text: SpecNormalize                                 *)

\* the characters of the texts given to normalize_text: a capital, a small
\* letter, a digit, the underscore, a punctuation mark and a space
NormalizeChars == {"A", "b", "1", "_", "-", " "}

MaxTextLen == 4

NormalizeTexts == SeqsUpTo(NormalizeChars, MaxTextLen)

InitNormalize ==
    /\ AppInit
    /\ rd = RdIdle
    /\ cls = ClsIdle
    /\ scan = ScanIdle
    /\ \E s \in NormalizeTexts : txt = [TxtIdle EXCEPT !.pc = "call", !.str1 = s]

\* normalize_text(text)
NormalizeTextCall ==
    /\ txt.pc = "call"
    /\ txt' = [txt EXCEPT !.pc = "done", !.normalized = normalize_text(txt.str1)]
    /\ UNCHANGED <<appVars, rd, cls, scan>>

NextNormalize == NormalizeTextCall

SpecNormalize == InitNormalize /\ [][NextNormalize]_vars

-----------------------------------------------------------------------------
(* similarity_ratio on two strings: SpecScorer                             *)

ScorerChars == {"a", "b", "-"}

MaxScoreLen == 4

ScorerTexts == SeqsUpTo(ScorerChars, MaxScoreLen)

InitScorer ==
    /\ AppInit
    /\ rd = RdIdle
    /\ cls = ClsIdle
    /\ scan = ScanIdle
    /\ \E a \in ScorerTexts, b \in ScorerTexts :
           txt = [TxtIdle EXCEPT !.pc = "call", !.str1 = a, !.str2 = b]

\* similarity_ratio(str1, str2), and similarity_ratio(str2, str1)
SimilarityRatioCall ==
    /\ txt.pc = "call"
    /\ txt' = [txt EXCEPT !.pc = "done",
                          !.ratio = similarity_ratio(txt.str1, txt.str2),
                          !.swapped = similarity_ratio(txt.str2, txt.str1)]
    /\ UNCHANGED <<appVars, rd, cls, scan>>

NextScorer == SimilarityRatioCall

SpecScorer == InitScorer /\ [][NextScorer]_vars

-----------------------------------------------------------------------------
(* remove_duplicates, one record of jobs_list at a time: SpecScan          *)

InitScan ==
    /\ AppInit
    /\ rd = RdIdle
    /\ cls = ClsIdle
    /\ txt = TxtIdle
    /\ \E l \in SeqsUpTo(DedupJobs, MaxLen), t \in Thresholds :
           scan = [ScanIdle EXCEPT !.pc = "call", !.jobs_list = l,
                                   !.similarity_threshold = t]

\* "if not jobs_list: return [], 0"
RemoveDuplicatesEmpty ==
    /\ scan.pc = "call"
    /\ scan.jobs_list = <<>>
    /\ scan' = [scan EXCEPT !.pc = "returned", !.acc = NoResult]
    /\ UNCHANGED <<appVars, rd, cls, txt>>

\* "unique_jobs = []; duplicates_removed = 0"
RemoveDuplicatesEnter ==
    /\ scan.pc = "call"
    /\ scan.jobs_list # <<>>
    /\ scan' = [scan EXCEPT !.pc = "loop", !.n = 0, !.acc = NoResult]
    /\ UNCHANGED <<appVars, rd, cls, txt>>

\* one pass of "for job in jobs_list"
RemoveDuplicatesIterate ==
    /\ scan.pc = "loop"
    /\ scan.n < Len(scan.jobs_list)
    /\ scan' = [scan EXCEPT !.n = @ + 1,
                            !.acc = RemoveDuplicatesStep(scan.acc,
                                                         scan.jobs_list[scan.n + 1],
                                                         scan.n + 1,
                                                         scan.similarity_threshold)]
    /\ UNCHANGED <<appVars, rd, cls, txt>>

\* "return unique_jobs, duplicates_removed"
RemoveDuplicatesReturn ==
    /\ scan.pc = "loop"
    /\ scan.n = Len(scan.jobs_list)
    /\ scan' = [scan EXCEPT !.pc = "returned"]
    /\ UNCHANGED <<appVars, rd, cls, txt>>

NextScan ==
    \/ RemoveDuplicatesEmpty
    \/ RemoveDuplicatesEnter
    \/ RemoveDuplicatesIterate
    \/ RemoveDuplicatesReturn

SpecScan == InitScan /\ [][NextScan]_vars

-----------------------------------------------------------------------------
(* Properties of is_duplicate, checked under SpecClassifier                *)

\* C8: is_duplicate(A, B, t) = is_duplicate(B, A, t) for all records A, B
\* (records with an empty or a missing url included) and all thresholds t.
C8_ClassifierSymmetric ==
    cls.pc = "done" => cls.result = cls.swapped

\* rule (1) of the classifier: normalized titles equal and normalized companies equal
C10_Rule1 ==
    /\ normalize_text(cls.job1.title) = normalize_text(cls.job2.title)
    /\ normalize_text(cls.job1.company) = normalize_text(cls.job2.company)

\* rule (2): title similarity >= threshold and company similarity >= 0.9
C10_Rule2 ==
    /\ RatioAtLeast(similarity_ratio(cls.job1.title, cls.job2.title), cls.threshold)
    /\ RatioAtLeast(similarity_ratio(cls.job1.company, cls.job2.company), CompanyFloor)

\* rule (3): both urls non-empty, equal as raw strings, neither containing
\* 'search' whatever the case of its letters
C10_Rule3 ==
    /\ "url" \in DOMAIN cls.job1 /\ cls.job1.url # <<>>
    /\ "url" \in DOMAIN cls.job2 /\ cls.job2.url # <<>>
    /\ cls.job1.url = cls.job2.url
    /\ ~Contains(Lower(cls.job1.url), SearchWord)
    /\ ~Contains(Lower(cls.job2.url), SearchWord)

\* C10: is_duplicate returns true exactly when at least one of the three rules
\* holds; two records sharing a url that contains 'search', with no other rule
\* firing, are not duplicates.
C10_ThreeRules ==
    cls.pc = "done" => (cls.result <=> (C10_Rule1 \/ C10_Rule2 \/ C10_Rule3))

\* C10's case: two records share a 'search' url, no other rule fires, and the
\* call returned false
C10_Witness ==
    /\ cls.pc = "done"
    /\ HasUrl(cls.job1) /\ HasUrl(cls.job2)
    /\ cls.job1.url = cls.job2.url
    /\ Contains(Lower(cls.job1.url), SearchWord)
    /\ ~C10_Rule1
    /\ ~C10_Rule2
    /\ ~cls.result

-----------------------------------------------------------------------------
(* Properties of remove_duplicates, checked under SpecDedup                *)

\* the positions of jobs_list that remove_duplicates retained
KeptSet(result) == Range(result.kept)

\* jobs_list[i] and jobs_list[j] are duplicates of each other at threshold t
MutualDuplicates(jobs_list, i, j, t) ==
    /\ IsDuplicate(jobs_list[i], jobs_list[j], t)
    /\ IsDuplicate(jobs_list[j], jobs_list[i], t)

\* the records of jobs_list at the positions in S, in the order of jobs_list
RECURSIVE PickFrom(_, _, _)
PickFrom(jobs_list, S, n) ==
    IF n = 0 THEN <<>>
    ELSE IF n \in S THEN Append(PickFrom(jobs_list, S, n - 1), jobs_list[n])
    ELSE PickFrom(jobs_list, S, n - 1)

IsSubsequence(unique_jobs, jobs_list) ==
    \E S \in SUBSET DOMAIN jobs_list :
        unique_jobs = PickFrom(jobs_list, S, Len(jobs_list))

\* C3 as stated: for every pair A before B of L that are duplicates of each
\* other, remove_duplicates(L, t) retains A and not B.
C3_FirstSeenSurvives ==
    rd.pc = "returned" =>
        \A i \in DOMAIN rd.jobs_list, j \in DOMAIN rd.jobs_list :
            (i < j /\ MutualDuplicates(rd.jobs_list, i, j, rd.similarity_threshold))
                => (i \in KeptSet(rd.result) /\ j \notin KeptSet(rd.result))

\* C3 amended: for every pair A before B of L that are duplicates of each
\* other, B is never retained together with A, and A is retained unless A is
\* itself a duplicate of a record retained before it.
C3_FirstRetainedSurvives ==
    rd.pc = "returned" =>
        \A i \in DOMAIN rd.jobs_list, j \in DOMAIN rd.jobs_list :
            (i < j /\ MutualDuplicates(rd.jobs_list, i, j, rd.similarity_threshold))
                => /\ i \in KeptSet(rd.result) => j \notin KeptSet(rd.result)
                   /\ i \notin KeptSet(rd.result) =>
                          \E h \in KeptSet(rd.result) :
                              /\ h < i
                              /\ IsDuplicate(rd.jobs_list[i], rd.jobs_list[h],
                                              rd.similarity_threshold)

\* C3's case: a pair of mutual duplicates whose first record was retained and
\* whose second was discarded, and a pair whose first record was discarded
C3_Witness ==
    /\ rd.pc = "returned"
    /\ \E i \in DOMAIN rd.jobs_list, j \in DOMAIN rd.jobs_list :
           /\ i < j
           /\ MutualDuplicates(rd.jobs_list, i, j, rd.similarity_threshold)
           /\ rd.jobs_list[i] # rd.jobs_list[j]
           /\ i \in KeptSet(rd.result)
           /\ j \notin KeptSet(rd.result)
    /\ \E i \in DOMAIN rd.jobs_list, j \in DOMAIN rd.jobs_list :
           /\ i < j
           /\ MutualDuplicates(rd.jobs_list, i, j, rd.similarity_threshold)
           /\ i \notin KeptSet(rd.result)

\* C4 as stated: for t1 < t2, remove_duplicates(L, t2) removes no more records
\* than remove_duplicates(L, t1).
C4_ThresholdMonotone ==
    rd.pc = "higher" =>
        rd.higher.duplicates_removed <= rd.result.duplicates_removed

\* C4 amended: for t1 < t2, every pair of records of L that is_duplicate
\* classifies as duplicates at t2 it classifies as duplicates at t1, and for
\* lists of at most three records remove_duplicates(L, t2) removes no more
\* records than remove_duplicates(L, t1).
C4_PairwiseMonotone ==
    rd.pc = "higher" =>
        /\ \A i \in DOMAIN rd.jobs_list, j \in DOMAIN rd.jobs_list :
               IsDuplicate(rd.jobs_list[i], rd.jobs_list[j], rd.higher_threshold)
                   => IsDuplicate(rd.jobs_list[i], rd.jobs_list[j],
                                   rd.similarity_threshold)
        /\ Len(rd.jobs_list) <= 3 =>
               rd.higher.duplicates_removed <= rd.result.duplicates_removed

\* C4's case: the higher threshold really removed fewer records, through a
\* pair that is a duplicate at t1 and not at t2
C4_Witness ==
    /\ rd.pc = "higher"
    /\ Len(rd.jobs_list) <= 3
    /\ rd.higher.duplicates_removed < rd.result.duplicates_removed
    /\ \E i \in DOMAIN rd.jobs_list, j \in DOMAIN rd.jobs_list :
           /\ IsDuplicate(rd.jobs_list[i], rd.jobs_list[j], rd.similarity_threshold)
           /\ ~IsDuplicate(rd.jobs_list[i], rd.jobs_list[j], rd.higher_threshold)

\* C5: remove_duplicates on the unique list returned by remove_duplicates(L, t),
\* with the same t, returns the same sequence and a removed count of 0.
C5_Idempotent ==
    rd.pc = "again" =>
        /\ rd.again.unique_jobs = rd.result.unique_jobs
        /\ rd.again.duplicates_removed = 0

\* C5's case: the first call removed records and kept several, and the second
\* call has run on its output
C5_Witness ==
    /\ rd.pc = "again"
    /\ rd.result.duplicates_removed > 0
    /\ Len(rd.result.unique_jobs) >= 2

\* C9: the unique list returned by remove_duplicates(L, t) is a subsequence of
\* L: every output record is an input record, unmodified, and the surviving
\* records keep their relative order.
C9_OrderPreserved ==
    rd.pc = "returned" =>
        /\ Len(rd.result.kept) = Len(rd.result.unique_jobs)
        /\ \A k \in DOMAIN rd.result.kept :
               /\ rd.result.kept[k] \in DOMAIN rd.jobs_list
               /\ rd.result.unique_jobs[k] = rd.jobs_list[rd.result.kept[k]]
        /\ \A k \in DOMAIN rd.result.kept, m \in DOMAIN rd.result.kept :
               k < m => rd.result.kept[k] < rd.result.kept[m]
        /\ IsSubsequence(rd.result.unique_jobs, rd.jobs_list)

\* C9's case: records were discarded from the middle of the list and several
\* different records survived
C9_Witness ==
    /\ rd.pc = "returned"
    /\ rd.result.duplicates_removed > 0
    /\ Len(rd.result.unique_jobs) >= 2
    /\ 1 \in KeptSet(rd.result)
    /\ Len(rd.jobs_list) \in KeptSet(rd.result)
    /\ rd.result.unique_jobs[1] # rd.result.unique_jobs[Len(rd.result.unique_jobs)]

\* C15 as stated: remove_duplicates on the two records 'IT Support Engineer'
\* at 'Acme Corp' and at 'Acme Corporation', at threshold 0.85, treats the
\* second as a duplicate: one record survives and the removed count is 1.
C15_Scenario2OneSurvives ==
    (rd.pc = "returned" /\ rd.jobs_list = Scenario2 /\ rd.similarity_threshold = 85) =>
        /\ RatioAtLeast(similarity_ratio(Company_AcmeCorp, Company_AcmeCorporation),
                        CompanyFloor)
        /\ rd.result.unique_jobs = <<Scenario2First>>
        /\ rd.result.duplicates_removed = 1

\* C15 amended: the company similarity of 'Acme Corp' and 'Acme Corporation'
\* is 18/25 = 0.72, under 0.9, so at threshold 0.85 the two records are not
\* duplicates: both survive and the removed count is 0.
C15_Scenario2BothSurvive ==
    (rd.pc = "returned" /\ rd.jobs_list = Scenario2 /\ rd.similarity_threshold = 85) =>
        /\ similarity_ratio(Company_AcmeCorp, Company_AcmeCorporation)
               = [num |-> 18, den |-> 25]
        /\ ~RatioAtLeast(similarity_ratio(Company_AcmeCorp, Company_AcmeCorporation),
                         CompanyFloor)
        /\ RatioAtLeast(similarity_ratio(Title_ITSupportEngineer, Title_ITSupportEngineer),
                        100)
        /\ rd.result.unique_jobs = Scenario2
        /\ rd.result.duplicates_removed = 0

\* C15's case: remove_duplicates has returned for the scenario at 0.85
C15_Witness ==
    /\ rd.pc = "returned"
    /\ rd.jobs_list = Scenario2
    /\ rd.similarity_threshold = 85
    /\ Len(rd.result.unique_jobs) = 2

\* jobs_list[i] is a duplicate of a record retained before it
DuplicateOfEarlierRetained(jobs_list, result, i, t) ==
    \E h \in KeptSet(result) :
        h < i /\ IsDuplicate(jobs_list[i], jobs_list[h], t)

\* C17: every record remove_duplicates(L, t) discards is a duplicate of a
\* retained record that precedes it in L, and a record is appended to the
\* output exactly when it is not a duplicate of any record retained so far.
C17_DiscardedHasEarlierRetained ==
    rd.pc = "returned" =>
        \A i \in DOMAIN rd.jobs_list :
            i \notin KeptSet(rd.result)
                <=> DuplicateOfEarlierRetained(rd.jobs_list, rd.result, i,
                                               rd.similarity_threshold)

\* C17's case: a record was discarded although the records are not duplicates
\* in the other argument order, next to a retained record in the middle
C17_Witness ==
    /\ rd.pc = "returned"
    /\ \E i \in DOMAIN rd.jobs_list, h \in KeptSet(rd.result) :
           /\ h < i
           /\ i \notin KeptSet(rd.result)
           /\ IsDuplicate(rd.jobs_list[i], rd.jobs_list[h], rd.similarity_threshold)
           /\ ~IsDuplicate(rd.jobs_list[h], rd.jobs_list[i], rd.similarity_threshold)
    /\ Len(rd.result.unique_jobs) >= 2

-----------------------------------------------------------------------------
(* Properties of the scan of remove_duplicates, checked under SpecScan     *)

\* C18: len(unique) + removed = number of records processed so far, at every
\* step of the scan; at the return that number is len(L) and the two locals
\* are what remove_duplicates(L, t) returns; the empty list yields ([], 0).
C18_CountConservation ==
    /\ scan.pc \in {"loop", "returned"} =>
           Len(scan.acc.unique_jobs) + scan.acc.duplicates_removed = scan.n
    /\ scan.pc = "returned" =>
           /\ scan.n = Len(scan.jobs_list)
           /\ scan.acc.unique_jobs = remove_duplicates(scan.jobs_list,
                                                       scan.similarity_threshold).unique_jobs
           /\ scan.acc.duplicates_removed = remove_duplicates(scan.jobs_list,
                                                scan.similarity_threshold).duplicates_removed
    /\ (scan.pc = "returned" /\ scan.jobs_list = <<>>) =>
           (scan.acc.unique_jobs = <<>> /\ scan.acc.duplicates_removed = 0)

\* C18's case: in the middle of the scan, with records both retained and
\* discarded so far
C18_Witness ==
    /\ scan.pc = "loop"
    /\ scan.n > 0
    /\ scan.n < Len(scan.jobs_list)
    /\ scan.acc.duplicates_removed > 0
    /\ Len(scan.acc.unique_jobs) >= 2

-----------------------------------------------------------------------------
(* Properties of the merge cycle, checked under Spec                       *)

RECURSIVE SumSeq(_)
SumSeq(s) == IF s = <<>> THEN 0 ELSE s[1] + SumSeq(Tail(s))

IsPrefix(s, t) == Len(s) <= Len(t) /\ SubSeq(t, 1, Len(s)) = s

\* every source of the cycle returned no records
EmptyCycle == \A k \in DOMAIN run.batches : run.batches[k].jobs = <<>>

\* C1: after every merge cycle no two distinct elements of all_jobs satisfy
\* is_duplicate at the threshold of that cycle, in either argument order.
C1_NoDuplicatePairs ==
    phase = "merged" =>
        \A i \in DOMAIN all_jobs, j \in DOMAIN all_jobs :
            i # j => ~IsDuplicate(all_jobs[i], all_jobs[j], run.dedup_threshold)

\* C2: in every merge cycle the old accumulated set is a prefix of the new
\* accumulated set, so the set never shrinks and truly_new is never negative.
C2_OldSetIsPrefix ==
    phase = "merged" =>
        /\ IsPrefix(run.old_jobs, all_jobs)
        /\ Len(all_jobs) >= Len(run.old_jobs)
        /\ run.truly_new >= 0

\* C6: merging a cycle in which every source returns no records into an
\* accumulated set produced by a previous merge at the same threshold leaves
\* the set unchanged, with truly_new = 0 and the cross-source, final-merge and
\* total removed counts all 0.
C6_EmptyCycleNoOp ==
    (phase = "merged" /\ EmptyCycle /\ run.old_threshold = run.dedup_threshold) =>
        /\ all_jobs = run.old_jobs
        /\ run.truly_new = 0
        /\ run.cross_dups = 0
        /\ run.final_dups = 0
        /\ run.total_dups_removed = 0

\* C6's case: an empty cycle merged into a set of several records that the
\* previous merge produced at the same threshold
C6_Witness ==
    /\ phase = "merged"
    /\ EmptyCycle
    /\ run.old_threshold = run.dedup_threshold
    /\ Len(run.old_jobs) >= 2
    /\ all_jobs = run.old_jobs

\* C7: the total_dups_removed of a cycle equals the per-source removed counts
\* of every source, plus the cross-source removed count, plus the final-merge
\* removed count.
C7_TotalIsSumOfStages ==
    phase = "merged" =>
        run.total_dups_removed =
            SumSeq(run.source_dups) + run.cross_dups + run.final_dups

\* C13: the accumulated set goes from populated to empty only by the "Clear
\* All Jobs" action: a merge cycle on a populated set, whatever the sources
\* return and whatever the threshold, leaves the set non-empty.
C13_EmptiedOnlyByClear ==
    [][(all_jobs # <<>> /\ all_jobs' = <<>>) => ClearAllJobs]_vars

\* C13's case: a merge cycle in which no source returned a record has run on
\* a populated set, and the set, though it lost a record, is still populated
C13_Witness ==
    /\ phase = "merged"
    /\ EmptyCycle
    /\ \E k \in DOMAIN run.batches : run.batches[k].raised
    /\ run.old_jobs # <<>>
    /\ Len(all_jobs) < Len(run.old_jobs)
    /\ all_jobs # <<>>

\* every record the scrapers returned in the cycle
RawRecords == UNION {Range(run.batches[k].jobs) : k \in DOMAIN run.batches}

\* the raw records that are in S or are duplicates, at the threshold of the
\* cycle, of a record of S
RepresentedBy(S) ==
    {x \in RawRecords :
        x \in S \/ \E y \in S : IsDuplicate(x, y, run.dedup_threshold)}

\* C16 as stated: after a merge cycle every record of every raw source batch
\* is an element of the accumulated set or is_duplicate of an element of it.
C16_EveryRawRecordRepresented ==
    phase = "merged" => RawRecords \subseteq RepresentedBy(Range(all_jobs))

\* C16 amended: after a merge cycle every record of every raw source batch is
\* joined to an element of the accumulated set by a chain of at most three
\* is_duplicate steps (one per stage) through records scraped in that cycle;
\* it need not be a duplicate of an element of the set itself.
C16_RepresentedThroughChain ==
    phase = "merged" =>
        RawRecords \subseteq
            RepresentedBy(RepresentedBy(RepresentedBy(Range(all_jobs))))

\* C16's case: a scraped record that is neither in the accumulated set nor a
\* duplicate of an element of it, and is reached through a chain
C16_Witness ==
    /\ phase = "merged"
    /\ \E x \in RawRecords :
           /\ x \notin RepresentedBy(Range(all_jobs))
           /\ x \in RepresentedBy(RepresentedBy(Range(all_jobs)))

\* what the sources that did not raise returned, each deduplicated on its
\* own, in the order of the sources list
RECURSIVE SurvivingSources(_, _, _)
SurvivingSources(batches, t, n) ==
    IF n = 0 THEN <<>>
    ELSE SurvivingSources(batches, t, n - 1)
             \o (IF batches[n].raised THEN <<>>
                 ELSE remove_duplicates(batches[n].jobs, t).unique_jobs)

\* C19: a source scraper that raises does not abort the merge cycle and does
\* not disturb the other sources: it contributes no records, the other
\* sources' per-source-deduplicated records are concatenated in the order of
\* the sources and cross-source deduplicated, and the accumulated set from
\* before the cycle is carried into the final merge, not lost.
C19_RaisingSourceIsSkipped ==
    (phase = "merged" /\ \E k \in DOMAIN run.batches : run.batches[k].raised) =>
        /\ Len(run.source_dups) = NumSources
        /\ run.new_jobs =
               remove_duplicates(SurvivingSources(run.batches, run.dedup_threshold,
                                                  NumSources),
                                 run.dedup_threshold).unique_jobs
        /\ all_jobs =
               remove_duplicates(run.old_jobs \o run.new_jobs,
                                 run.dedup_threshold).unique_jobs
        /\ run.old_jobs # <<>> => (all_jobs # <<>> /\ all_jobs[1] = run.old_jobs[1])
        /\ run.old_threshold = run.dedup_threshold => IsPrefix(run.old_jobs, all_jobs)

\* C19's case: the second source raised, the first and the third returned
\* records, and the accumulated set was populated before the cycle
C19_Witness ==
    /\ phase = "merged"
    /\ run.batches[2].raised
    /\ run.batches[1].jobs # <<>>
    /\ run.batches[3].jobs # <<>>
    /\ run.old_jobs # <<>>
    /\ Len(all_jobs) > Len(run.old_jobs)

-----------------------------------------------------------------------------
(* Properties of normalize_text and similarity_ratio                       *)

\* the letters and digits normalize_text may leave in its result
LowerAlnum == Range(LowerChars) \cup Digits

\* C11: normalize_text returns a canonical string: lower case, only letters,
\* digits and single spaces (no punctuation, no underscore, no run of two or
\* more whitespace characters), no leading or trailing whitespace; the empty
\* input yields the empty string.
C11_Canonical ==
    txt.pc = "done" =>
        /\ \A i \in DOMAIN txt.normalized :
               txt.normalized[i] \in LowerAlnum \cup {" "}
        /\ \A i \in DOMAIN txt.normalized :
               (i > 1 /\ IsSpace(txt.normalized[i])) => ~IsSpace(txt.normalized[i - 1])
        /\ txt.normalized # <<>> =>
               /\ ~IsSpace(txt.normalized[1])
               /\ ~IsSpace(txt.normalized[Len(txt.normalized)])
        /\ txt.str1 = <<>> => txt.normalized = <<>>

\* C14: similarity_ratio(a, b) = similarity_ratio(b, a) for all strings a, b.
C14_ScorerSymmetric ==
    txt.pc = "done" =>
        txt.ratio.num * txt.swapped.den = txt.swapped.num * txt.ratio.den

\* a field that is empty or normalizes to the empty string
NormalizesToEmpty(text) == normalize_text(text) = <<>>

\* C12: when a compared record has an empty title or company (or one that
\* normalizes to empty), the exact-match rule of is_duplicate does not fire;
\* two records whose titles and companies are all empty are not duplicates by
\* that rule.
C12_EmptyFieldNoExactMatch ==
    (/\ cls.pc = "done"
     /\ \/ NormalizesToEmpty(cls.job1.title)
        \/ NormalizesToEmpty(cls.job1.company)
        \/ NormalizesToEmpty(cls.job2.title)
        \/ NormalizesToEmpty(cls.job2.company))
        => ~ExactMatch(cls.job1, cls.job2)
=============================================================================
